---- MODULE Spec2Model ----
(***************************************************************************)
(* Model of foxtail's in-memory job queue (src/src/lib.rs): the Job        *)
(* record, the InMemQueue store (a VecDeque<Job> behind one Mutex) and the *)
(* four JobQueue operations, run by several caller threads.                *)
(*                                                                         *)
(* Each operation is split at the points where another thread could be     *)
(* scheduled: the call (blocked in Mutex::lock), the return of lock(), the *)
(* scan (iter().position), the access at the position found, and the       *)
(* return of the function, where the guard is dropped.                     *)
(***************************************************************************)
EXTENDS Integers, Sequences, FiniteSets, TLC

\* ------------------------------------------------------------------ bounds
NThreads == 2          \* caller threads
MaxId == 2             \* job ids are drawn from 1..MaxId
MaxJobs == 2           \* jobs constructed in one run of concurrent callers
MaxOps == 3            \* operations called in one run of concurrent callers
SeqMaxJobs == 3        \* jobs constructed in one run of one caller at a time
SeqMaxOps == 5         \* operations called in one run of one caller at a time

Threads == 1..NThreads
Ids == 1..MaxId

\* The payload a job is constructed from and the time SystemTime::now() reads
\* in Job::new: the empty payload and a one-byte payload, at two clock values.
NewJobInputs == {[payload |-> <<>>, now |-> 0], [payload |-> <<72>>, now |-> 1]}

VARIABLES
    jobs,       \* InMemQueue.jobs: the VecDeque<Job> inside the Mutex
    holder,     \* the thread that holds the MutexGuard, 0 when the Mutex is free
    poisoned,   \* the Mutex's poison flag
    pc,         \* each thread's position
    op,         \* the operation each thread is running
    id_job,     \* the id_job argument of get / dequeue (0: none)
    j,          \* the j argument of enqueue (NoJob: none, or moved out)
    pos,        \* the local pos: the result of iter().position (0: None)
    result,     \* the value the running operation returns (NoResult: not yet set)
    enqLog,     \* history: the jobs pushed, in the order of the pushes
    removed,    \* history: the jobs taken out by dequeue
    njobs,      \* jobs constructed so far
    ncalls,     \* operations called so far
    caller      \* each caller's local bound to the value an operation returned

vars == <<jobs, holder, poisoned, pc, op, id_job, j, pos, result,
          enqLog, removed, njobs, ncalls, caller>>

\* ------------------------------------------------------------------- values
NoJob == [sn |-> 0]
NoResult == [tag |-> "NoResult"]
Ok == [tag |-> "Ok"]
None == [tag |-> "None"]

Err(msg) == [tag |-> "Err", msg |-> msg]

Some(job) == [tag |-> "Some", job |-> job]

Usize(n) == [tag |-> "usize", n |-> n]

\* Job::new. sn is not a field of the struct: it stands for the identity of the
\* value constructed (the sn-th Job::new of the run), so that two jobs with
\* equal fields can be told apart in the histories.
JobNew(id, payload, now, sn) ==
    [id |-> id, status |-> "PENDING", payload |-> payload,
     timestamp |-> now, heartbeat |-> now, sn |-> sn]

\* Option<&Job>::cloned: a field-by-field copy.
Cloned(job) ==
    [id |-> job.id, status |-> job.status, payload |-> job.payload,
     timestamp |-> job.timestamp, heartbeat |-> job.heartbeat, sn |-> job.sn]

\* The decimal digits of a u32, as format!'s {} writes them.
RECURSIVE Digits(_)
Digits(n) ==
    LET d == <<"0", "1", "2", "3", "4", "5", "6", "7", "8", "9">>[(n % 10) + 1]
    IN  IF n < 10 THEN <<d>> ELSE Append(Digits(n \div 10), d)

\* Faulty variant: a message without the id.
NotFoundMsgNoId(id) == <<"Job not found">>

\* format!("Job with ID {} not found", id_job)
NotFoundMsg(id) == <<"Job with ID ">> \o Digits(id) \o <<" not found">>

\* "failed to lock".to_string()
FailedToLockMsg == <<"failed to lock">>

\* Faulty variant: rposition, the last index whose job has the id.
PositionLast(queue, id) ==
    IF \E i \in 1..Len(queue) : queue[i].id = id
    THEN CHOOSE i \in 1..Len(queue) :
            /\ queue[i].id = id
            /\ \A k \in (i + 1)..Len(queue) : queue[k].id # id
    ELSE 0

\* queue.iter().position(|job| job.id == id_job): the first index whose job has
\* the id. Indices are 1-based here (0-based in the source); 0 stands for None.
Position(queue, id) ==
    IF \E i \in 1..Len(queue) : queue[i].id = id
    THEN CHOOSE i \in 1..Len(queue) :
            /\ queue[i].id = id
            /\ \A k \in 1..(i - 1) : queue[k].id # id
    ELSE 0

\* Faulty variant: push_back that skips a job whose id is already stored.
PushBackUnlessStored(queue, job) ==
    IF \E i \in 1..Len(queue) : queue[i].id = job.id
    THEN queue
    ELSE Append(queue, job)

\* Faulty variant: push_front.
PushFront(queue, job) == <<job>> \o queue

\* VecDeque::push_back
PushBack(queue, job) == Append(queue, job)

\* Faulty variant: retain(|job| job.id != id) in place of remove(pos).
RemoveEvery(queue, p) ==
    LET Other(e) == e.id # queue[p].id IN SelectSeq(queue, Other)

\* VecDeque::remove(pos) on an index in range: the queue without that entry.
RemoveAt(queue, p) ==
    [i \in 1..(Len(queue) - 1) |-> IF i < p THEN queue[i] ELSE queue[i + 1]]

\* queue.get(pos).cloned(): None when the index is out of range.
GetAt(queue, p) == IF p \in 1..Len(queue) THEN Some(Cloned(queue[p])) ELSE None

\* What get(id) returns on a store that no other operation touches meanwhile:
\* the scan, then the access at the position found.
GetOf(queue, id) ==
    LET p == Position(queue, id) IN IF p # 0 THEN GetAt(queue, p) ELSE None

\* What dequeue(id) returns on such a store.
DequeueOf(queue, id) ==
    LET p == Position(queue, id) IN IF p # 0 THEN Ok ELSE Err(NotFoundMsg(id))

\* -------------------------------------------------------------------- Init
\* InMemQueue::new, and threads that have not called anything yet.
Init ==
    /\ jobs = <<>>
    /\ holder = 0
    /\ poisoned = FALSE
    /\ pc = [t \in Threads |-> "idle"]
    /\ op = [t \in Threads |-> "none"]
    /\ id_job = [t \in Threads |-> 0]
    /\ j = [t \in Threads |-> NoJob]
    /\ pos = [t \in Threads |-> 0]
    /\ result = [t \in Threads |-> NoResult]
    /\ enqLog = <<>>
    /\ removed = {}
    /\ njobs = 0
    /\ ncalls = 0
    /\ caller = [t \in Threads |-> NoResult]

\* ------------------------------------------------------------------- calls
\* A caller constructs a job with Job::new, its id drawn from ids, and calls
\* enqueue(j). maxJobs and maxOps are the budget of the run.
CallEnqueueOf(t, ids, maxJobs, maxOps) ==
    /\ pc[t] = "idle"
    /\ ncalls < maxOps
    /\ njobs < maxJobs
    /\ \E id \in ids, in \in NewJobInputs :
          j' = [j EXCEPT ![t] = JobNew(id, in.payload, in.now, njobs + 1)]
    /\ njobs' = njobs + 1
    /\ ncalls' = ncalls + 1
    /\ pc' = [pc EXCEPT ![t] = "call"]
    /\ op' = [op EXCEPT ![t] = "enqueue"]
    /\ UNCHANGED <<jobs, holder, poisoned, id_job, pos, result, enqLog, removed>>
    /\ UNCHANGED caller

\* A caller calls get(id_job).
CallGetOf(t, maxOps) ==
    /\ pc[t] = "idle"
    /\ ncalls < maxOps
    /\ \E id \in Ids : id_job' = [id_job EXCEPT ![t] = id]
    /\ ncalls' = ncalls + 1
    /\ pc' = [pc EXCEPT ![t] = "call"]
    /\ op' = [op EXCEPT ![t] = "get"]
    /\ UNCHANGED <<jobs, holder, poisoned, j, pos, result, enqLog, removed, njobs>>
    /\ UNCHANGED caller

\* A caller calls dequeue(id_job).
CallDequeueOf(t, maxOps) ==
    /\ pc[t] = "idle"
    /\ ncalls < maxOps
    /\ \E id \in Ids : id_job' = [id_job EXCEPT ![t] = id]
    /\ ncalls' = ncalls + 1
    /\ pc' = [pc EXCEPT ![t] = "call"]
    /\ op' = [op EXCEPT ![t] = "dequeue"]
    /\ UNCHANGED <<jobs, holder, poisoned, j, pos, result, enqLog, removed, njobs>>
    /\ UNCHANGED caller

\* A caller calls len().
CallLenOf(t, maxOps) ==
    /\ pc[t] = "idle"
    /\ ncalls < maxOps
    /\ ncalls' = ncalls + 1
    /\ pc' = [pc EXCEPT ![t] = "call"]
    /\ op' = [op EXCEPT ![t] = "len"]
    /\ UNCHANGED <<jobs, holder, poisoned, id_job, j, pos, result, enqLog, removed,
                   njobs>>
    /\ UNCHANGED caller

\* ---------------------------------------------------------------- the lock
\* Faulty variant: try_lock in place of lock: a caller that finds the Mutex held gets
\* the lock error at once.
LockTry(t) ==
    /\ pc[t] = "call"
    /\ IF holder = 0
       THEN /\ holder' = t
            /\ pc' = [pc EXCEPT ![t] = "locked"]
            /\ UNCHANGED <<result, j>>
       ELSE /\ result' = [result EXCEPT ![t] = Err(FailedToLockMsg)]
            /\ j' = [j EXCEPT ![t] = NoJob]
            /\ pc' = [pc EXCEPT ![t] = "exit"]
            /\ UNCHANGED holder
    /\ UNCHANGED <<jobs, poisoned, op, id_job, pos, enqLog, removed, njobs, ncalls>>
    /\ UNCHANGED caller

\* Faulty variant: a lock that does not wait for the holder to release.
LockUnguarded(t) ==
    /\ pc[t] = "call"
    /\ holder' = t
    /\ pc' = [pc EXCEPT ![t] = "locked"]
    /\ UNCHANGED <<jobs, poisoned, op, id_job, j, pos, result, enqLog, removed,
                   njobs, ncalls>>
    /\ UNCHANGED caller

\* self.jobs.lock() returns: the thread was blocked until the Mutex was free.
\* A poisoned Mutex is acquired too; lock() then returns Err(PoisonError),
\* which carries the guard.
Lock(t) ==
    /\ pc[t] = "call"
    /\ holder = 0
    /\ holder' = t
    /\ pc' = [pc EXCEPT ![t] = "locked"]
    /\ UNCHANGED <<jobs, poisoned, op, id_job, j, pos, result, enqLog, removed,
                   njobs, ncalls>>
    /\ UNCHANGED caller

\* .expect(..) on Err(PoisonError): the thread panics; unwinding drops the
\* error and the guard in it. The Mutex stays poisoned.
ExpectPanics(t) ==
    /\ pc' = [pc EXCEPT ![t] = "panicked"]
    /\ holder' = IF holder = t THEN 0 ELSE holder
    /\ UNCHANGED <<jobs, poisoned, op, id_job, j, pos, result, enqLog, removed,
                   njobs, ncalls>>

\* Faulty variant: a return that leaks the guard on the error path.
ReturnLeakingOnErr(t) ==
    /\ pc[t] = "exit"
    /\ holder' = IF holder = t /\ result[t].tag # "Err" THEN 0 ELSE holder
    /\ pc' = [pc EXCEPT ![t] = "idle"]
    /\ op' = [op EXCEPT ![t] = "none"]
    /\ id_job' = [id_job EXCEPT ![t] = 0]
    /\ pos' = [pos EXCEPT ![t] = 0]
    /\ result' = [result EXCEPT ![t] = NoResult]
    /\ UNCHANGED <<jobs, poisoned, j, enqLog, removed, njobs, ncalls>>
    /\ UNCHANGED caller

\* The function returns: the guard goes out of scope and the result is handed
\* to the caller. The frame (arguments, locals, return value) is gone.
Return(t) ==
    /\ pc[t] = "exit"
    /\ holder' = IF holder = t THEN 0 ELSE holder
    /\ pc' = [pc EXCEPT ![t] = "idle"]
    /\ op' = [op EXCEPT ![t] = "none"]
    /\ id_job' = [id_job EXCEPT ![t] = 0]
    /\ pos' = [pos EXCEPT ![t] = 0]
    /\ result' = [result EXCEPT ![t] = NoResult]
    /\ UNCHANGED <<jobs, poisoned, j, enqLog, removed, njobs, ncalls>>
    /\ UNCHANGED caller

\* Faulty variant: enqueue that takes the lock with expect, as the other three
\* operations do.
EnqueueExpecting(t) ==
    /\ pc[t] = "locked"
    /\ op[t] = "enqueue"
    /\ IF poisoned
       THEN /\ pc' = [pc EXCEPT ![t] = "panicked"]
            /\ holder' = IF holder = t THEN 0 ELSE holder
            /\ UNCHANGED <<jobs, enqLog, result>>
       ELSE /\ jobs' = PushBack(jobs, j[t])
            /\ enqLog' = Append(enqLog, j[t])
            /\ result' = [result EXCEPT ![t] = Ok]
            /\ pc' = [pc EXCEPT ![t] = "exit"]
            /\ UNCHANGED holder
    /\ j' = [j EXCEPT ![t] = NoJob]
    /\ UNCHANGED <<poisoned, op, id_job, pos, removed, njobs, ncalls, caller>>

\* ------------------------------------------------------------------ enqueue
\* lock().map_err(..)?; queue.push_back(j); Ok(())
\* On a poisoned Mutex map_err's closure drops the PoisonError, and the guard
\* with it, and ? returns the Err; j is dropped.
Enqueue(t) ==
    /\ pc[t] = "locked"
    /\ op[t] = "enqueue"
    /\ IF poisoned
       THEN /\ result' = [result EXCEPT ![t] = Err(FailedToLockMsg)]
            /\ holder' = IF holder = t THEN 0 ELSE holder
            /\ UNCHANGED <<jobs, enqLog>>
       ELSE /\ jobs' = PushBack(jobs, j[t])
            /\ enqLog' = Append(enqLog, j[t])
            /\ result' = [result EXCEPT ![t] = Ok]
            /\ UNCHANGED holder
    /\ j' = [j EXCEPT ![t] = NoJob]
    /\ pc' = [pc EXCEPT ![t] = "exit"]
    /\ UNCHANGED <<poisoned, op, id_job, pos, removed, njobs, ncalls>>
    /\ UNCHANGED caller

\* ---------------------------------------------------------------------- get
\* lock().expect(..); queue.iter().position(..)
GetScan(t) ==
    /\ pc[t] = "locked"
    /\ op[t] = "get"
    /\ IF poisoned
       THEN ExpectPanics(t)
       ELSE /\ pos' = [pos EXCEPT ![t] = Position(jobs, id_job[t])]
            /\ pc' = [pc EXCEPT ![t] = "scanned"]
            /\ UNCHANGED <<jobs, holder, poisoned, op, id_job, j, result, enqLog,
                           removed, njobs, ncalls>>
    /\ UNCHANGED caller

\* Faulty variant: get that takes the job out of the store (remove(pos)).
GetTaking(t) ==
    /\ pc[t] = "scanned"
    /\ op[t] = "get"
    /\ result' = [result EXCEPT ![t] =
                    IF pos[t] # 0 THEN GetAt(jobs, pos[t]) ELSE None]
    /\ jobs' = IF pos[t] \in 1..Len(jobs) THEN RemoveAt(jobs, pos[t]) ELSE jobs
    /\ pc' = [pc EXCEPT ![t] = "exit"]
    /\ UNCHANGED <<holder, poisoned, op, id_job, j, pos, enqLog, removed,
                   njobs, ncalls>>
    /\ UNCHANGED caller

\* if let Some(pos) = .. { return queue.get(pos).cloned(); } None
Get(t) ==
    /\ pc[t] = "scanned"
    /\ op[t] = "get"
    /\ result' = [result EXCEPT ![t] =
                    IF pos[t] # 0 THEN GetAt(jobs, pos[t]) ELSE None]
    /\ pc' = [pc EXCEPT ![t] = "exit"]
    /\ UNCHANGED <<jobs, holder, poisoned, op, id_job, j, pos, enqLog, removed,
                   njobs, ncalls>>
    /\ UNCHANGED caller

\* ------------------------------------------------------------------ dequeue
\* lock().expect(..); queue.iter().position(..)
DequeueScan(t) ==
    /\ pc[t] = "locked"
    /\ op[t] = "dequeue"
    /\ IF poisoned
       THEN ExpectPanics(t)
       ELSE /\ pos' = [pos EXCEPT ![t] = Position(jobs, id_job[t])]
            /\ pc' = [pc EXCEPT ![t] = "scanned"]
            /\ UNCHANGED <<jobs, holder, poisoned, op, id_job, j, result, enqLog,
                           removed, njobs, ncalls>>
    /\ UNCHANGED caller

\* if let Some(pos) = .. { queue.remove(pos).unwrap(); return Ok(()); }
\* Err(format!(..))
\* remove(pos) is None when pos is out of range; unwrap then panics while the
\* guard is alive, which poisons the Mutex and releases it.
Dequeue(t) ==
    /\ pc[t] = "scanned"
    /\ op[t] = "dequeue"
    /\ IF pos[t] = 0
       THEN /\ result' = [result EXCEPT ![t] = Err(NotFoundMsg(id_job[t]))]
            /\ pc' = [pc EXCEPT ![t] = "exit"]
            /\ UNCHANGED <<jobs, removed, holder, poisoned>>
       ELSE IF pos[t] \in 1..Len(jobs)
       THEN /\ jobs' = RemoveAt(jobs, pos[t])
            /\ removed' = removed \cup {jobs[pos[t]]}
            /\ result' = [result EXCEPT ![t] = Ok]
            /\ pc' = [pc EXCEPT ![t] = "exit"]
            /\ UNCHANGED <<holder, poisoned>>
       ELSE /\ poisoned' = TRUE
            /\ holder' = IF holder = t THEN 0 ELSE holder
            /\ pc' = [pc EXCEPT ![t] = "panicked"]
            /\ UNCHANGED <<jobs, removed, result>>
    /\ UNCHANGED <<op, id_job, j, pos, enqLog, njobs, ncalls>>
    /\ UNCHANGED caller

\* ---------------------------------------------------------------------- len
\* lock().expect(..); queue.len()
LenOp(t) ==
    /\ pc[t] = "locked"
    /\ op[t] = "len"
    /\ IF poisoned
       THEN ExpectPanics(t)
       ELSE /\ result' = [result EXCEPT ![t] = Usize(Len(jobs))]
            /\ pc' = [pc EXCEPT ![t] = "exit"]
            /\ UNCHANGED <<jobs, holder, poisoned, op, id_job, j, pos, enqLog,
                           removed, njobs, ncalls>>
    /\ UNCHANGED caller

\* ---------------------------------------------------------- the environment
\* Code outside the four operations that shares the Arc<Mutex<..>> locks it and
\* panics with the guard alive: unwinding releases the Mutex and leaves it
\* poisoned. The store is not touched.
PanicWhileHolding ==
    /\ holder = 0
    /\ ~poisoned
    /\ poisoned' = TRUE
    /\ UNCHANGED <<jobs, holder, pc, op, id_job, j, pos, result, enqLog, removed,
                   njobs, ncalls>>
    /\ UNCHANGED caller

\* ------------------------------------------------------------------ callers
\* The clock values SystemTime::now() can read. SystemTime is the wall clock:
\* a later reading may be smaller than an earlier one.
ClockReadings == {in.now : in \in NewJobInputs}

\* Faulty variant: update_heartbeat that also marks the job as picked.
UpdateHeartbeatPicking(job, now) ==
    [job EXCEPT !.heartbeat = now, !.status = "PICKED"]

\* Job::update_heartbeat: self.heartbeat = SystemTime::now()
UpdateHeartbeatOf(job, now) == [job EXCEPT !.heartbeat = now]

\* let j = Job::new(id, payload): a caller constructs a job and keeps it.
NewJob(t) ==
    /\ pc[t] = "idle"
    /\ j[t].sn = 0
    /\ njobs < MaxJobs
    /\ \E id \in Ids, in \in NewJobInputs :
          j' = [j EXCEPT ![t] = JobNew(id, in.payload, in.now, njobs + 1)]
    /\ njobs' = njobs + 1
    /\ UNCHANGED <<jobs, holder, poisoned, pc, op, id_job, pos, result, enqLog,
                   removed, ncalls, caller>>

\* j.update_heartbeat() on a job the caller constructed and still owns.
UpdateHeartbeat(t) ==
    /\ pc[t] = "idle"
    /\ j[t].sn # 0
    /\ \E now \in ClockReadings :
          j' = [j EXCEPT ![t] = UpdateHeartbeatOf(j[t], now)]
    /\ UNCHANGED <<jobs, holder, poisoned, pc, op, id_job, pos, result, enqLog,
                   removed, njobs, ncalls, caller>>

\* Faulty variant: the job get returned is the stored job itself, not a copy:
\* the update reaches the store.
UpdateHeartbeatOfCopyShared(t) ==
    /\ pc[t] = "idle"
    /\ caller[t].tag = "Some"
    /\ \E now \in ClockReadings :
          /\ caller' = [caller EXCEPT
                          ![t] = Some(UpdateHeartbeatOf(caller[t].job, now))]
          /\ jobs' = [i \in 1..Len(jobs) |->
                        IF jobs[i].sn = caller[t].job.sn
                        THEN UpdateHeartbeatOf(jobs[i], now)
                        ELSE jobs[i]]
    /\ UNCHANGED <<holder, poisoned, pc, op, id_job, j, pos, result, enqLog,
                   removed, njobs, ncalls>>

\* x.update_heartbeat() on the job a get returned to the caller.
UpdateHeartbeatOfCopy(t) ==
    /\ pc[t] = "idle"
    /\ caller[t].tag = "Some"
    /\ \E now \in ClockReadings :
          caller' = [caller EXCEPT
                       ![t] = Some(UpdateHeartbeatOf(caller[t].job, now))]
    /\ UNCHANGED <<jobs, holder, poisoned, pc, op, id_job, j, pos, result, enqLog,
                   removed, njobs, ncalls>>

\* q.enqueue(j) with the job the caller owns.
CallEnqueueHeld(t) ==
    /\ pc[t] = "idle"
    /\ j[t].sn # 0
    /\ ncalls < MaxOps
    /\ ncalls' = ncalls + 1
    /\ pc' = [pc EXCEPT ![t] = "call"]
    /\ op' = [op EXCEPT ![t] = "enqueue"]
    /\ UNCHANGED <<jobs, holder, poisoned, id_job, j, pos, result, enqLog, removed,
                   njobs, caller>>

\* let res = q.get(..) and the like: the function returns as in Return, and the
\* caller binds the value returned.
ReturnBound(t) ==
    /\ pc[t] = "exit"
    /\ caller' = [caller EXCEPT ![t] = result[t]]
    /\ holder' = IF holder = t THEN 0 ELSE holder
    /\ pc' = [pc EXCEPT ![t] = "idle"]
    /\ op' = [op EXCEPT ![t] = "none"]
    /\ id_job' = [id_job EXCEPT ![t] = 0]
    /\ pos' = [pos EXCEPT ![t] = 0]
    /\ result' = [result EXCEPT ![t] = NoResult]
    /\ UNCHANGED <<jobs, poisoned, j, enqLog, removed, njobs, ncalls>>

\* ----------------------------------------------------------- specifications
\* One step of an operation that has been called.
Step(t) ==
    \/ Lock(t)
    \/ Enqueue(t)
    \/ GetScan(t)
    \/ Get(t)
    \/ DequeueScan(t)
    \/ Dequeue(t)
    \/ LenOp(t)
    \/ Return(t)

\* Concurrent callers: any thread may call while others are inside operations.
CallEnqueue(t) == CallEnqueueOf(t, Ids, MaxJobs, MaxOps)

CallGet(t) == CallGetOf(t, MaxOps)

CallDequeue(t) == CallDequeueOf(t, MaxOps)

CallLen(t) == CallLenOf(t, MaxOps)

Next ==
    \E t \in Threads :
        \/ CallEnqueue(t)
        \/ CallGet(t)
        \/ CallDequeue(t)
        \/ CallLen(t)
        \/ Step(t)

Spec == Init /\ [][Next]_vars

\* One caller at a time: a call is made only when no operation is in progress.
NoOperationInProgress == \A u \in Threads : pc[u] = "idle"

SeqCallEnqueue(t) ==
    NoOperationInProgress /\ CallEnqueueOf(t, Ids, SeqMaxJobs, SeqMaxOps)

SeqCallGet(t) == NoOperationInProgress /\ CallGetOf(t, SeqMaxOps)

SeqCallDequeue(t) == NoOperationInProgress /\ CallDequeueOf(t, SeqMaxOps)

SeqCallLen(t) == NoOperationInProgress /\ CallLenOf(t, SeqMaxOps)

NextSeq ==
    \E t \in Threads :
        \/ SeqCallEnqueue(t)
        \/ SeqCallGet(t)
        \/ SeqCallDequeue(t)
        \/ SeqCallLen(t)
        \/ Step(t)

SpecSeq == Init /\ [][NextSeq]_vars

\* NThreads threads each enqueue one job, the ids distinct, concurrently.
\* Thread t is the t-th to call; after the calls the steps interleave freely.
UsedIds ==
    {enqLog[i].id : i \in 1..Len(enqLog)}
        \cup {j[u].id : u \in {v \in Threads : j[v].sn # 0}}

EnqCallOnce(t) ==
    /\ t = ncalls + 1
    /\ CallEnqueueOf(t, Ids \ UsedIds, NThreads, NThreads)

NextEnq ==
    \E t \in Threads :
        \/ EnqCallOnce(t)
        \/ Lock(t)
        \/ Enqueue(t)
        \/ Return(t)

SpecEnq == Init /\ [][NextEnq]_vars

\* Concurrent callers of a queue whose Mutex the environment may poison.
NextPoison ==
    \/ \E t \in Threads :
          \/ CallEnqueue(t)
          \/ CallGet(t)
          \/ CallDequeue(t)
          \/ CallLen(t)
          \/ Step(t)
    \/ PanicWhileHolding

SpecPoison == Init /\ [][NextPoison]_vars

\* One caller, as in the tests of the crate, that constructs jobs, updates the
\* heartbeat of the job it owns and of the copy get returned, and calls
\* enqueue, get and dequeue.
TestThread == CHOOSE t \in Threads : \A u \in Threads : t <= u

NextJob ==
    \E t \in {TestThread} :
        \/ NewJob(t)
        \/ UpdateHeartbeat(t)
        \/ UpdateHeartbeatOfCopy(t)
        \/ CallEnqueueHeld(t)
        \/ CallGet(t)
        \/ CallDequeue(t)
        \/ Lock(t)
        \/ Enqueue(t)
        \/ GetScan(t)
        \/ Get(t)
        \/ DequeueScan(t)
        \/ Dequeue(t)
        \/ ReturnBound(t)

SpecJob == Init /\ [][NextJob]_vars

\* Jobs with distinct ids are enqueued one call at a time; then every thread
\* calls dequeue once for the id of the first job enqueued, concurrently, and
\* binds what dequeue returned.
DequeuesBegun ==
    \E u \in Threads : op[u] = "dequeue" \/ caller[u] # NoResult

DeqSetupEnqueue(t) ==
    /\ NoOperationInProgress
    /\ ~DequeuesBegun
    /\ CallEnqueueOf(t, Ids \ UsedIds, MaxJobs, MaxJobs)

DeqSetupReturn(t) == op[t] = "enqueue" /\ Return(t)

DeqCallOnce(t) ==
    /\ caller[t] = NoResult
    /\ enqLog # <<>>
    /\ CallDequeueOf(t, MaxJobs + NThreads)
    /\ id_job'[t] = enqLog[1].id

DeqReturn(t) == op[t] = "dequeue" /\ ReturnBound(t)

NextDeq ==
    \E t \in Threads :
        \/ DeqSetupEnqueue(t)
        \/ DeqSetupReturn(t)
        \/ DeqCallOnce(t)
        \/ Lock(t)
        \/ Enqueue(t)
        \/ DequeueScan(t)
        \/ Dequeue(t)
        \/ DeqReturn(t)

SpecDeq == Init /\ [][NextDeq]_vars

\* A caller calls len(), any number of times: polling the size is outside the
\* budget of the run, so a thread can take the lock again and again.
CallLenRepeatedly(t) ==
    /\ pc[t] = "idle"
    /\ pc' = [pc EXCEPT ![t] = "call"]
    /\ op' = [op EXCEPT ![t] = "len"]
    /\ UNCHANGED <<jobs, holder, poisoned, id_job, j, pos, result, enqLog, removed,
                   njobs, ncalls, caller>>

\* As many calls of enqueue, get and dequeue as there are threads, among any
\* number of calls of len.
NextFair ==
    \E t \in Threads :
        \/ CallEnqueueOf(t, Ids, MaxJobs, NThreads)
        \/ CallGetOf(t, NThreads)
        \/ CallDequeueOf(t, NThreads)
        \/ CallLenRepeatedly(t)
        \/ Step(t)

\* Faulty variant: a Mutex that may pass over a waiting thread for ever.
SpecUnfairLock ==
    /\ Init /\ [][NextFair]_vars
    /\ \A t \in Threads : WF_vars(Step(t))

\* The interleavings in which every thread that can take a step of its
\* operation eventually takes it (the scheduler runs every thread), and a
\* thread waiting in lock() while the Mutex becomes free again and again
\* eventually gets it (the Mutex is granted fairly).
SpecFair ==
    /\ Init /\ [][NextFair]_vars
    /\ \A t \in Threads : WF_vars(Step(t)) /\ SF_vars(Lock(t))

\* ------------------------------------------------------------------ helpers
Range(s) == {s[i] : i \in 1..Len(s)}

\* The number of stored jobs with the id.
Count(queue, id) == Cardinality({i \in 1..Len(queue) : queue[i].id = id})

\* The place of a job in the order of the pushes.
EnqIndex(e) == CHOOSE i \in 1..Len(enqLog) : enqLog[i].sn = e.sn

DigitValue(ch) ==
    CHOOSE v \in 0..9 :
        <<"0", "1", "2", "3", "4", "5", "6", "7", "8", "9">>[v + 1] = ch

RECURSIVE ParseDigits(_)
ParseDigits(ds) ==
    IF Len(ds) = 0 THEN 0
    ELSE 10 * ParseDigits(SubSeq(ds, 1, Len(ds) - 1)) + DigitValue(ds[Len(ds)])

\* The id a not-found message carries, -1 when the text is no such message.
IdCarriedBy(msg) ==
    IF /\ Len(msg) >= 3
       /\ msg[1] = "Job with ID "
       /\ msg[Len(msg)] = " not found"
    THEN ParseDigits(SubSeq(msg, 2, Len(msg) - 1))
    ELSE -1

\* The step in which enqueue pushes and succeeds.
EnqueueSucceeds(t) ==
    pc[t] = "locked" /\ op[t] = "enqueue" /\ result'[t] = Ok

\* The step of dequeue that follows its scan.
DequeueActs(t) ==
    pc[t] = "scanned" /\ op[t] = "dequeue" /\ pc'[t] # "scanned"

\* Every Job value that exists in a state: the jobs in the store, the jobs
\* callers own, and the copies get produced (being returned, or bound).
JobsAlive ==
    Range(jobs)
        \cup {j[t] : t \in {u \in Threads : j[u].sn # 0}}
        \cup {result[t].job : t \in {u \in Threads : result[u].tag = "Some"}}
        \cup {caller[t].job : t \in {u \in Threads : caller[u].tag = "Some"}}

\* ------------------------------------------------------------------- claims
\* C1: a successful enqueue(j) increases len() by exactly one, and right after
\* it get(j.id) returns a present job with id j.id and dequeue(j.id) would
\* succeed.
C1_EnqueueVisible ==
    [][\A t \in Threads :
          EnqueueSucceeds(t) =>
              /\ Len(jobs') = Len(jobs) + 1
              /\ GetOf(jobs', j[t].id).tag = "Some"
              /\ GetOf(jobs', j[t].id).job.id = j[t].id
              /\ DequeueOf(jobs', j[t].id) = Ok]_vars

\* A third job was pushed, with an id that is already in the store.
C1_Witness ==
    \E t \in Threads :
        /\ pc[t] = "exit" /\ op[t] = "enqueue" /\ result[t] = Ok
        /\ Len(jobs) = 3
        /\ Count(jobs, jobs[3].id) >= 2

\* C2: when some stored job has id x, dequeue(x) succeeds, removes exactly one
\* entry with id x and decreases len() by exactly one; if x occurred once, a
\* get(x) right after returns absent.
C2_DequeuePresent ==
    [][\A t \in Threads :
          (DequeueActs(t) /\ Count(jobs, id_job[t]) > 0) =>
              /\ result'[t] = Ok
              /\ Len(jobs') = Len(jobs) - 1
              /\ \E e \in Range(jobs) :
                    e.id = id_job[t] /\ Range(jobs') = Range(jobs) \ {e}
              /\ (Count(jobs, id_job[t]) = 1 => GetOf(jobs', id_job[t]) = None)]_vars

\* dequeue(x) succeeded on a store that held x twice: one entry with id x is
\* left.
C2_Witness ==
    \E t \in Threads :
        /\ pc[t] = "exit" /\ op[t] = "dequeue" /\ result[t] = Ok
        /\ Count(jobs, id_job[t]) = 1
        /\ Len(jobs) = 2

\* C3: when no stored job has id x (also after x was dequeued), dequeue(x)
\* returns a not-found error that carries x, and the store is unchanged.
C3_DequeueAbsent ==
    [][\A t \in Threads :
          (DequeueActs(t) /\ Count(jobs, id_job[t]) = 0) =>
              /\ result'[t].tag = "Err"
              /\ IdCarriedBy(result'[t].msg) = id_job[t]
              /\ jobs' = jobs]_vars

\* dequeue(x) failed on a non-empty store from which x had been dequeued.
C3_Witness ==
    \E t \in Threads :
        /\ pc[t] = "exit" /\ op[t] = "dequeue" /\ result[t].tag = "Err"
        /\ \E e \in removed : e.id = id_job[t]
        /\ Len(jobs) >= 1

\* C4: get(x) returns the earliest-enqueued stored job with id x, and absent
\* exactly when no stored job has id x.
C4_GetFirstMatch ==
    \A t \in Threads :
        (pc[t] = "exit" /\ op[t] = "get") =>
            IF Count(jobs, id_job[t]) = 0
            THEN result[t] = None
            ELSE /\ result[t].tag = "Some"
                 /\ result[t].job \in Range(jobs)
                 /\ result[t].job.id = id_job[t]
                 /\ \A e \in Range(jobs) :
                       e.id = id_job[t] => EnqIndex(result[t].job) <= EnqIndex(e)

\* get(x) returned a job while the store held two jobs with id x, behind a
\* job with another id.
C4_Witness ==
    \E t \in Threads :
        /\ pc[t] = "exit" /\ op[t] = "get" /\ result[t].tag = "Some"
        /\ Count(jobs, id_job[t]) = 2
        /\ jobs[1].id # id_job[t]

\* C5: get and len are read-only: no step of a get or a len changes the store
\* (contents, order, length), and what get found the next get finds again.
C5_ReadOnly ==
    [][\A t \in Threads :
          (op[t] \in {"get", "len"} /\ pc'[t] # pc[t]) =>
              /\ jobs' = jobs
              /\ (op[t] = "get" /\ pc[t] = "scanned") =>
                    GetOf(jobs', id_job[t]) = result'[t]]_vars

\* get(x) found a job in a store of three.
C5_Witness ==
    \E t \in Threads :
        /\ pc[t] = "exit" /\ op[t] = "get" /\ result[t].tag = "Some"
        /\ Len(jobs) = 3

\* C6: the store is the sequence of the enqueues done, in their order, minus
\* the entries dequeued: enqueue appends at the tail and dequeue keeps the
\* order of the entries that remain.
C6_InsertionOrdered ==
    LET Live(e) == e \notin removed
    IN  /\ jobs = SelectSeq(enqLog, Live)
        /\ removed \subseteq Range(enqLog)

\* The first of three jobs enqueued was dequeued; two remain.
C6_Witness ==
    /\ Len(enqLog) = 3
    /\ removed = {enqLog[1]}
    /\ Len(jobs) = 2

\* A thread is inside the body of an operation: lock() has returned to it and
\* the function has not returned yet.
InBody(t) == pc[t] \in {"locked", "scanned", "exit"}

\* C7: N threads concurrently enqueue one job each, the N ids distinct: once
\* all N enqueues have returned, len() is N and for each of the ids the store
\* holds exactly one job with it, which get returns.
C7_ConcurrentEnqueues ==
    (ncalls = NThreads /\ \A t \in Threads : pc[t] = "idle") =>
        /\ Len(jobs) = NThreads
        /\ Len(enqLog) = NThreads
        /\ \A i \in 1..Len(enqLog) :
              /\ Count(jobs, enqLog[i].id) = 1
              /\ GetOf(jobs, enqLog[i].id).tag = "Some"
              /\ GetOf(jobs, enqLog[i].id).job.id = enqLog[i].id

\* All enqueues have returned, and the thread that called last pushed first.
C7_Witness ==
    /\ ncalls = NThreads
    /\ \A t \in Threads : pc[t] = "idle"
    /\ Len(jobs) = NThreads
    /\ jobs[1].sn = NThreads

\* C8: at most one thread is inside the body of an operation, that thread
\* holds the lock, and the store it scanned is the store it then acts on: the
\* position found is still the first match when the access is made.
C8_MutualExclusion ==
    /\ Cardinality({t \in Threads : InBody(t)}) <= 1
    /\ \A t \in Threads :
          /\ InBody(t) => holder = t
          /\ pc[t] = "scanned" => pos[t] = Position(jobs, id_job[t])

\* A dequeue has found its job and holds the lock while another thread's
\* enqueue waits for it.
C8_Witness ==
    \E t, u \in Threads :
        /\ pc[t] = "scanned" /\ op[t] = "dequeue" /\ pos[t] # 0
        /\ pc[u] = "call" /\ op[u] = "enqueue"

\* C9: an operation that returns, with whatever result, leaves the lock free:
\* a thread outside a body never holds it, and after a return no one does, so
\* a waiting thread can acquire it.
C9_ReleasedOnExit ==
    /\ [](\A t \in Threads : ~InBody(t) => holder # t)
    /\ [][\A t \in Threads :
            (pc[t] = "exit" /\ pc'[t] = "idle") => holder' = 0]_vars

\* A dequeue is returning its not-found error while another thread waits for
\* the lock.
C9_Witness ==
    \E t, u \in Threads :
        /\ pc[t] = "exit" /\ op[t] = "dequeue" /\ result[t].tag = "Err"
        /\ pc[u] = "call"

\* C10: with a poisoned lock dequeue(x) returns an error value to its caller,
\* without aborting the thread, and leaves the store unchanged.
C10_DequeueReturnsLockError ==
    [][\A t \in Threads :
          (pc[t] = "locked" /\ op[t] = "dequeue" /\ poisoned /\ pc'[t] # pc[t]) =>
              /\ pc'[t] = "exit"
              /\ result'[t].tag = "Err"
              /\ jobs' = jobs]_vars

\* The step of enqueue that follows the return of lock().
EnqueueActs(t) ==
    pc[t] = "locked" /\ op[t] = "enqueue" /\ pc'[t] # "locked"

\* C11: enqueue fails only when the lock cannot be acquired: with a poisoned
\* lock it returns an error value and adds nothing; with a usable lock it
\* returns Ok and appends j, whatever j's id (duplicates included) and payload
\* (empty included).
C11_EnqueueFailsOnlyOnLock ==
    [][\A t \in Threads :
          EnqueueActs(t) =>
              /\ pc'[t] = "exit"
              /\ IF poisoned
                 THEN result'[t].tag = "Err" /\ jobs' = jobs
                 ELSE /\ result'[t] = Ok
                      /\ Len(jobs') = Len(jobs) + 1
                      /\ SubSeq(jobs', 1, Len(jobs)) = jobs
                      /\ jobs'[Len(jobs')] = j[t]]_vars

\* enqueue returned its error on a poisoned lock, the store holding a job.
C11_Witness ==
    \E t \in Threads :
        /\ pc[t] = "exit" /\ op[t] = "enqueue" /\ result[t].tag = "Err"
        /\ poisoned
        /\ Len(jobs) = 1

\* enqueue succeeded with an empty payload and an id that is already stored.
C11_WitnessDuplicate ==
    \E t \in Threads :
        /\ pc[t] = "exit" /\ op[t] = "enqueue" /\ result[t] = Ok
        /\ Len(jobs) = 2
        /\ jobs[1].id = jobs[2].id
        /\ jobs[2].payload = <<>>


\* C12 (as stated; the code does not keep it): for every job, in every
\* reachable state, timestamp <= heartbeat. update_heartbeat stores whatever
\* SystemTime::now() reads, and the wall clock can be set back between
\* Job::new and update_heartbeat.
C12_TimestampNotAfterHeartbeat ==
    \A job \in JobsAlive : job.timestamp <= job.heartbeat


\* The job as it was when enqueue pushed it.
AsEnqueued(log, job) == log[CHOOSE i \in 1..Len(log) : log[i].sn = job.sn]

\* A caller updates the heartbeat of the copy it obtained from get.
UpdatesCopy(t) ==
    /\ pc[t] = "idle" /\ pc'[t] = "idle"
    /\ caller[t].tag = "Some" /\ caller'[t] # caller[t]

\* C13: get returns an independent copy. A step in which a caller updates the
\* heartbeat of a job obtained from get leaves the store as it was, every
\* stored job is as it was enqueued, and every get that finds a job returns
\* it with the heartbeat it had when it was enqueued.
C13_GetReturnsIndependentCopy ==
    [][/\ \A t \in Threads : UpdatesCopy(t) => jobs' = jobs
       /\ \A i \in 1..Len(jobs') : jobs'[i] = AsEnqueued(enqLog', jobs'[i])
       /\ \A t \in Threads :
             (pc'[t] = "exit" /\ op'[t] = "get" /\ result'[t].tag = "Some")
                 => result'[t].job = AsEnqueued(enqLog', result'[t].job)]_vars

\* A caller holds a copy whose heartbeat it has changed, and a later get of
\* the same job is returning the heartbeat the job was enqueued with.
C13_Witness ==
    \E t \in Threads :
        /\ pc[t] = "exit" /\ op[t] = "get" /\ result[t].tag = "Some"
        /\ caller[t].tag = "Some"
        /\ caller[t].job.sn = result[t].job.sn
        /\ caller[t].job.heartbeat # result[t].job.heartbeat
        /\ result[t].job \in Range(jobs)


\* The fields of a job that nothing may change once Job::new has set them.
Constructed(job) ==
    <<job.sn, job.id, job.status, job.payload, job.timestamp>>

\* C19: a job is constructed with status PENDING, and no step of Job's or the
\* queue's operations changes a job's id, status, payload or timestamp: every
\* job after a step either continues a job from before the step with these
\* fields as they were, or is newly constructed and PENDING; every job there
\* is, stored or returned by get, is PENDING; and a job in the store before and
\* after a step has the same heartbeat.
C19_JobFieldsFixed ==
    [][/\ \A b \in JobsAlive' :
             \/ \E a \in JobsAlive : Constructed(a) = Constructed(b)
             \/ /\ \A a \in JobsAlive : a.sn # b.sn
                /\ b.status = "PENDING"
                /\ b.heartbeat = b.timestamp
       /\ \A b \in JobsAlive' : b.status = "PENDING"
       /\ \A a \in Range(jobs), b \in Range(jobs') :
             a.sn = b.sn => a.heartbeat = b.heartbeat]_vars

\* A job whose owner updated its heartbeat before enqueuing it is in the
\* store, and get is returning it, while the caller holds an earlier copy
\* whose heartbeat it has updated again.
C19_Witness ==
    \E t \in Threads :
        /\ pc[t] = "exit" /\ op[t] = "get" /\ result[t].tag = "Some"
        /\ result[t].job.heartbeat # result[t].job.timestamp
        /\ result[t].job \in Range(jobs)
        /\ caller[t].tag = "Some"
        /\ Constructed(caller[t].job) = Constructed(result[t].job)
        /\ caller[t].job.heartbeat = caller[t].job.timestamp


\* ------------------------------------------------- the sequential FIFO store
\* The jobs of s with the given id, in the order of s.
Matching(s, id) == SelectSeq(s, LAMBDA job : job.id = id)

\* s without the first of its jobs with the given id.
RECURSIVE WithoutFirst(_, _)
WithoutFirst(s, id) ==
    IF s = <<>> THEN <<>>
    ELSE IF Head(s).id = id THEN Tail(s)
    ELSE <<Head(s)>> \o WithoutFirst(Tail(s), id)

\* One operation of the JobQueue trait applied, alone, to a FIFO store s: the
\* store it leaves and the value it returns.
FifoApply(s, o, id, job) ==
    CASE o = "enqueue" -> [store |-> Append(s, job), value |-> Ok]
      [] o = "get" ->
            [store |-> s,
             value |-> IF Matching(s, id) = <<>>
                       THEN None
                       ELSE Some(Head(Matching(s, id)))]
      [] o = "dequeue" ->
            IF Matching(s, id) = <<>>
            THEN [store |-> s, value |-> Err(NotFoundMsg(id))]
            ELSE [store |-> WithoutFirst(s, id), value |-> Ok]
      [] o = "len" -> [store |-> s, value |-> Usize(Len(s))]

\* The step in which an operation that holds the lock produces its result.
Completes(t) == pc[t] \in {"locked", "scanned"} /\ pc'[t] = "exit"

\* C14: linearizability in lock order. The thread that produces a result is
\* the one that acquired the lock last, no other thread is between its lock()
\* and its result, the store it leaves and the value it returns are those of
\* its operation applied alone to the FIFO store it found, and no other step
\* changes the store.
C14_Linearizable ==
    [][/\ \A t \in Threads :
             Completes(t) =>
                 /\ holder = t
                 /\ \A u \in Threads \ {t} : ~InBody(u)
                 /\ [store |-> jobs', value |-> result'[t]]
                        = FifoApply(jobs, op[t], id_job[t], j[t])
       /\ (\A t \in Threads : ~Completes(t)) => jobs' = jobs]_vars

\* A dequeue has removed a job and holds its result while another thread,
\* which called get for the same id, still waits for the lock.
C14_Witness ==
    \E t \in Threads, u \in Threads :
        /\ pc[t] = "exit" /\ op[t] = "dequeue" /\ result[t] = Ok
        /\ pc[u] = "call" /\ op[u] = "get" /\ id_job[u] = id_job[t]
        /\ Len(jobs) = 0 /\ Len(enqLog) = 1


\* The earliest-enqueued of the jobs of s with the given id.
Earliest(s, id) ==
    CHOOSE a \in Range(s) :
        /\ a.id = id
        /\ \A b \in Range(s) : b.id = id => EnqIndex(a) <= EnqIndex(b)

\* C15: when several stored jobs share id x, dequeue(x) returns Ok and removes
\* only the earliest-enqueued of them, which is the entry get(x) returns on
\* the store before; the other jobs, later duplicates included, stay in their
\* order, and get(x) on the store after returns the next-earliest duplicate.
C15_DequeueFirstOfDuplicates ==
    [][\A t \in Threads :
          (DequeueActs(t) /\ Count(jobs, id_job[t]) >= 2) =>
              LET x == id_job[t]
                  first == Earliest(jobs, x)
              IN  /\ result'[t] = Ok
                  /\ GetOf(jobs, x) = Some(first)
                  /\ Len(jobs') = Len(jobs) - 1
                  /\ Range(jobs') = Range(jobs) \ {first}
                  /\ \A a \in 1..Len(jobs'), b \in 1..Len(jobs') :
                        a < b => EnqIndex(jobs'[a]) < EnqIndex(jobs'[b])
                  /\ Count(jobs', x) = Count(jobs, x) - 1
                  /\ GetOf(jobs', x) = Some(Earliest(jobs', x))
                  /\ EnqIndex(first) < EnqIndex(Earliest(jobs', x))]_vars

\* Three jobs with one id were stored; dequeue has returned Ok and two of
\* them remain.
C15_Witness ==
    \E t \in Threads :
        /\ pc[t] = "exit" /\ op[t] = "dequeue" /\ result[t] = Ok
        /\ Len(jobs) = 2 /\ Count(jobs, id_job[t]) = 2
        /\ Cardinality(removed) = 1
        /\ jobs[1].payload # jobs[2].payload


\* C17: the value len() returns is the number of enqueues that have succeeded
\* minus the number of dequeues that have succeeded when len reads the store
\* under the lock; a dequeue that fails leaves that number as it is.
C17_LenCountsEnqueuesMinusDequeues ==
    [][/\ \A t \in Threads :
             (pc[t] = "locked" /\ op[t] = "len" /\ pc'[t] = "exit") =>
                 result'[t] = Usize(Len(enqLog) - Cardinality(removed))
       /\ \A t \in Threads :
             (DequeueActs(t) /\ result'[t] # Ok) =>
                 /\ Len(jobs') = Len(jobs)
                 /\ enqLog' = enqLog /\ removed' = removed
       /\ \A t \in Threads :
             (DequeueActs(t) /\ result'[t] = Ok) =>
                 Cardinality(removed') = Cardinality(removed) + 1
       /\ \A t \in Threads :
             EnqueueSucceeds(t) => Len(enqLog') = Len(enqLog) + 1
       /\ Len(jobs') = Len(enqLog') - Cardinality(removed')]_vars

\* len returns 0 after one enqueue and one dequeue succeeded.
C17_Witness ==
    \E t \in Threads :
        /\ pc[t] = "exit" /\ op[t] = "len" /\ result[t] = Usize(0)
        /\ Len(enqLog) = 1 /\ Cardinality(removed) = 1

\* len returns 2 after two enqueues and no dequeue.
C17_WitnessNoDequeue ==
    \E t \in Threads :
        /\ pc[t] = "exit" /\ op[t] = "len" /\ result[t] = Usize(2)
        /\ Len(enqLog) = 2 /\ removed = {}


\* C20: starting from a new queue, in every interleaving of the four
\* operations the Mutex is never poisoned, no thread has panicked, no
\* operation has returned the lock error, and the position dequeue is about to
\* remove at is one its scan found: inside the store, at a job with the id
\* asked for, so that remove(pos) yields an entry.
C20_NeverPoisoned ==
    /\ ~poisoned
    /\ \A t \in Threads :
          /\ pc[t] # "panicked"
          /\ result[t] # Err(FailedToLockMsg)
          /\ (pc[t] = "scanned" /\ op[t] = "dequeue" /\ pos[t] # 0) =>
                /\ pos[t] \in 1..Len(jobs)
                /\ jobs[pos[t]].id = id_job[t]

\* dequeue has found its job and is about to remove it while another thread
\* that asked to dequeue the same id waits for the lock.
C20_Witness ==
    \E t \in Threads, u \in Threads :
        /\ pc[t] = "scanned" /\ op[t] = "dequeue" /\ pos[t] = Len(jobs)
        /\ Len(jobs) = 1
        /\ pc[u] = "call" /\ op[u] = "dequeue" /\ id_job[u] = id_job[t]


\* The threads whose dequeue has returned.
Returned == {t \in Threads : pc[t] = "idle" /\ caller[t] # NoResult}

\* C18: the store holds exactly one job with id x and the threads call
\* dequeue(x) concurrently. Under every interleaving, as soon as any of the
\* calls has returned, exactly one of the calls that returned has Ok, every
\* other one has the not-found error for x, and one job, the one with id x,
\* has been removed: the store is one shorter, not two.
C18_ConcurrentDequeuesOneWins ==
    Returned # {} =>
        LET x == enqLog[1].id
        IN  /\ Cardinality({t \in Returned : caller[t] = Ok}) = 1
            /\ \A t \in Returned :
                  caller[t] # Ok =>
                      /\ caller[t] = Err(NotFoundMsg(x))
                      /\ IdCarriedBy(caller[t].msg) = x
            /\ Len(jobs) = Len(enqLog) - 1
            /\ removed = {enqLog[1]}
            /\ Count(jobs, x) = 0

\* Both of two concurrent calls have returned, one with Ok and one with the
\* error, and the other stored job is still there.
C18_Witness ==
    /\ Returned = Threads
    /\ \E t \in Threads, u \in Threads :
          caller[t] = Ok /\ caller[u].tag = "Err"
    /\ Len(jobs) = 1


\* A thread is inside a call of one of the four operations.
InCall(t) == pc[t] # "idle"

\* C16: no deadlock and no starvation. With an unpoisoned Mutex granted
\* fairly, every call by any thread eventually returns (which it does only
\* after lock() has returned), whatever the other threads do; and in every
\* reachable state in which some thread is inside a call, some thread inside
\* a call can step.
C16_NoDeadlockNoStarvation ==
    /\ \A t \in Threads : InCall(t) ~> (pc[t] = "idle")
    /\ []((\E t \in Threads : InCall(t)) =>
            \E t \in Threads : InCall(t) /\ ENABLED Step(t))

\* Every thread is inside a call: one holds the lock and the others wait for
\* it in lock().
C16_Witness ==
    /\ \A t \in Threads : InCall(t)
    /\ \E t \in Threads :
          /\ holder = t /\ pc[t] = "scanned"
          /\ \A u \in Threads \ {t} : pc[u] = "call"

====
